---- MODULE Spec2Model ----
(***************************************************************************)
(* The record store of Myco Logger (database.py): one SQLite table         *)
(* `experiments` with an AUTOINCREMENT primary key, accessed through        *)
(* add/get/update/delete functions that each run one statement inside the  *)
(* get_connection context manager; and the pages and helpers built on it: *)
(* the filters, the charts of the Analytics page, the calculators, the     *)
(* Add Experiment form and the edit / delete flow of the View page.        *)
(*                                                                         *)
(* Encoding of values.  Text and date columns hold strings; Python None /  *)
(* SQL NULL in such a column is the string NULL.  id and created_at hold   *)
(* naturals; None / NULL in them is NoInt (0), which like SQL NULL sorts   *)
(* before every real value.  Timestamps are the ticks of `clock`.          *)
(* A percentage with one decimal is the natural number of its tenths.      *)
(***************************************************************************)
EXTENDS Integers, Sequences, FiniteSets, TLC

\* ---------------------------------------------------------------- bounds
MaxId == 2          \* ids and the AUTOINCREMENT counter stay within 1..MaxId
MaxClock == 2       \* CURRENT_TIMESTAMP ranges over 1..MaxClock
MaxStored == 3      \* records in the database file when a session begins
MaxTotal == 16      \* experiments counted by calculate_success_rate

NULL == "NULL"
NoInt == 0

\* ---------------------------------------------------------------- schema
Columns ==
    {"id", "experiment_name", "substrate_type", "substrate_details",
     "spawn_ratio", "substrate_weight_kg", "container_type",
     "inoculation_date", "colonization_date", "first_pin_date", "status",
     "contamination_type", "contamination_notes", "notes", "created_at"}

NotNullColumns ==
    {"experiment_name", "substrate_type", "inoculation_date", "status"}

required_fields ==
    {"experiment_name", "substrate_type", "inoculation_date", "status"}

\* ---------------------------------------------------------------- inputs
Statuses == {"colonizing", "done"}

OptionalKeys == {"id", "created_at", "bogus"}

ValuesOf(k) ==
    CASE k = "experiment_name" -> {"oyster"}
      [] k = "substrate_type" -> {"straw"}
      [] k = "inoculation_date" -> {"2024-01-01"}
      [] k = "status" -> Statuses \cup {NULL}
      [] k = "id" -> 0..MaxId
      [] k = "created_at" -> 1..MaxClock
      [] OTHER -> {"x"}

EmptyMap == [k \in {} |-> NULL]

RECURSIVE Maps(_)
Maps(S) ==
    IF S = {} THEN {EmptyMap}
    ELSE LET k == CHOOSE x \in S : TRUE
         IN  {f @@ (k :> v) : f \in Maps(S \ {k}), v \in ValuesOf(k)}

\* field mappings passed to add_experiment: the required keys with one of
\* them left out, or all of them and at most one other key
CreateKeySets ==
    {required_fields \ {k} : k \in required_fields}
    \cup {required_fields}
    \cup {required_fields \cup {k} : k \in OptionalKeys}

\* (an id given to add_experiment is a number: None there means "no id")
CreateKwargs ==
    {f \in UNION {Maps(S) : S \in CreateKeySets} :
        "id" \in DOMAIN f => f["id"] # NoInt}

\* field mappings passed to update_experiment: no key, one key, or two
UpdateKeySets ==
    {{}} \cup {{k} : k \in {"status"} \cup OptionalKeys}
    \cup {{"status", "created_at"}}

UpdateKwargs == UNION {Maps(S) : S \in UpdateKeySets}

Ids == 1..MaxId

\* ---------------------------------------------------------------- state
\* db       the database file: whether the table `experiments` exists, its
\*          rows, and the counter kept for it in sqlite_sequence
\* clock    CURRENT_TIMESTAMP
\* last     the call that has just ended, with its arguments and its outcome,
\*          until the caller goes on (Return); op = "none" between calls
\* prev     db and history as they were when that call began
\* history  the ids add_experiment has returned and the ids delete_experiment
\*          has removed so far; recorded only in behaviours that start with
\*          history.on (specification SpecHistory)
\* connections    the number of connections of the process that are open
\* session_state  st.session_state of the browser session: a mapping, empty
\*                until a page initializes it and after clear()
VARIABLES db, clock, last, prev, history, connections, session_state

vars == <<db, clock, last, prev, history, connections, session_state>>

Max2(a, b) == IF a >= b THEN a ELSE b

MaxRowid(rows) ==
    IF rows = {} THEN 0
    ELSE CHOOSE m \in {r.id : r \in rows} : \A r \in rows : r.id <= m

\* ------------------------------------------------------------ statements
Failed(d, kind) ==
    [db |-> d, error |-> kind, rowcount |-> 0, lastrowid |-> 0]

InsertedRow(kwargs, rowid, now) ==
    [c \in Columns |->
        IF c = "id" THEN rowid
        ELSE IF c \in DOMAIN kwargs THEN kwargs[c]
        ELSE IF c = "created_at" THEN now
        ELSE NULL]

\* INSERT INTO experiments (<keys>) VALUES (<values>)
ExecInsert(d, kwargs, now) ==
    LET keys == DOMAIN kwargs
        explicit == "id" \in keys /\ kwargs["id"] # NoInt
        rowid == IF explicit THEN kwargs["id"]
                 ELSE Max2(d.seq, MaxRowid(d.experiments)) + 1
        row == InsertedRow(kwargs, rowid, now)
    IN  IF ~d.table \/ ~(keys \subseteq Columns)
        THEN Failed(d, "OperationalError")
        ELSE IF \E c \in NotNullColumns : row[c] = NULL
             THEN Failed(d, "IntegrityError")
        ELSE IF \E r \in d.experiments : r.id = rowid
             THEN Failed(d, "IntegrityError")
        ELSE [db |-> [d EXCEPT !.experiments = @ \cup {row},
                               !.seq = Max2(@, rowid)],
              error |-> "none", rowcount |-> 1, lastrowid |-> rowid]

\* (variant: a column that is not named falls back to its initial value)
UpdatedRow_ResetsStatus(old, kwargs) ==
    [c \in Columns |->
        IF c \in DOMAIN kwargs THEN kwargs[c]
        ELSE IF c = "status" THEN "colonizing" ELSE old[c]]

UpdatedRow(old, kwargs) ==
    [c \in Columns |-> IF c \in DOMAIN kwargs THEN kwargs[c] ELSE old[c]]

\* (variant: the WHERE clause is missing, every row is assigned)
ExecUpdate_NoWhere(d, experiment_id, kwargs) ==
    LET keys == DOMAIN kwargs
        new == {UpdatedRow(r, kwargs) : r \in d.experiments}
    IN  IF ~d.table \/ keys = {} \/ ~(keys \subseteq Columns)
        THEN Failed(d, "OperationalError")
        ELSE IF \E r \in new : \E c \in NotNullColumns : r[c] = NULL
             THEN Failed(d, "IntegrityError")
        ELSE IF \E r \in new : r.id = NoInt
             THEN Failed(d, "IntegrityError")
        ELSE IF Cardinality(new) # Cardinality(d.experiments)
             THEN Failed(d, "IntegrityError")
        ELSE [db |-> [d EXCEPT !.experiments = new],
              error |-> "none", rowcount |-> Cardinality(new), lastrowid |-> 0]

\* UPDATE experiments SET <key> = ?, ... WHERE id = ?
ExecUpdate(d, experiment_id, kwargs) ==
    LET keys == DOMAIN kwargs
        hit == {r \in d.experiments : r.id = experiment_id}
        new == {UpdatedRow(r, kwargs) : r \in hit}
        rest == d.experiments \ hit
    IN  IF ~d.table \/ keys = {} \/ ~(keys \subseteq Columns)
        THEN Failed(d, "OperationalError")
        ELSE IF hit = {}
             THEN [db |-> d, error |-> "none", rowcount |-> 0, lastrowid |-> 0]
        ELSE IF \E r \in new : \E c \in NotNullColumns : r[c] = NULL
             THEN Failed(d, "IntegrityError")
        ELSE IF \E r \in new : r.id = NoInt
             THEN Failed(d, "IntegrityError")
        ELSE IF \E r \in new : \E q \in rest : q.id = r.id
             THEN Failed(d, "IntegrityError")
        ELSE [db |-> [d EXCEPT !.experiments = rest \cup new],
              error |-> "none", rowcount |-> Cardinality(hit), lastrowid |-> 0]

\* DELETE FROM experiments WHERE id = ?
ExecDelete(d, experiment_id) ==
    LET hit == {r \in d.experiments : r.id = experiment_id}
    IN  IF ~d.table THEN Failed(d, "OperationalError")
        ELSE [db |-> [d EXCEPT !.experiments = @ \ hit],
              error |-> "none", rowcount |-> Cardinality(hit), lastrowid |-> 0]

\* ------------------------------------------------------------ connection
Connect(d) == [committed |-> d, working |-> d, open |-> TRUE]

Commit(c) == [c EXCEPT !.committed = c.working]

\* (variant: the except branch commits instead of rolling back)
Rollback_Commits(c) == [c EXCEPT !.committed = c.working]

Rollback(c) == [c EXCEPT !.working = c.committed]

Close(c) == [c EXCEPT !.working = c.committed, !.open = FALSE]

\* (variant: no finally clause, the connection is closed after a commit only)
get_connection_NoFinally(c, raised) ==
    [conn |-> IF raised = "none" THEN Close(Commit(c)) ELSE Rollback(c),
     error |-> raised]

\* the exit of the `with get_connection()` block: commit when the body ended
\* normally, rollback and re-raise when it raised, close in both cases
get_connection(c, raised) ==
    [conn |-> Close(IF raised = "none" THEN Commit(c) ELSE Rollback(c)),
     error |-> raised]

\* what a `with get_connection()` block that has ended adds to the open
\* connections of the process
StillOpen(run) == IF run.open THEN 1 ELSE 0

\* a body that executes one statement and then calls conn.commit();
\* `fault` is the point at which the storage layer fails, if any
RunStatement(d, exec, fault) ==
    LET c0 == Connect(d)
        execError == IF fault = "execute" THEN "StorageError" ELSE exec.error
        c1 == IF execError = "none" THEN [c0 EXCEPT !.working = exec.db] ELSE c0
        raised == IF execError # "none" THEN execError
                  ELSE IF fault = "commit" THEN "StorageError" ELSE "none"
        c2 == IF raised = "none" THEN Commit(c1) ELSE c1
        out == get_connection(c2, raised)
    IN  [db |-> out.conn.committed, open |-> out.conn.open,
         raised |-> raised, error |-> out.error,
         rowcount |-> exec.rowcount, lastrowid |-> exec.lastrowid]

\* ------------------------------------------------------------ operations
Call(op, id, kwargs, fault, raised, error, result) ==
    [op |-> op, id |-> id, kwargs |-> kwargs, fault |-> fault,
     raised |-> raised, error |-> error, result |-> result]

Idle == Call("none", 0, EmptyMap, "none", "none", "none", 0)

\* single caller: an operation begins when the one before it has returned
Ready == last.op = "none"

Remember ==
    /\ prev' = [db |-> db, history |-> history]
    /\ history' =
          IF ~history.on THEN history
          ELSE IF last'.op = "add_experiment" /\ last'.error = "none"
               THEN [history EXCEPT !.returned = @ \cup {last'.result}]
          ELSE IF last'.op = "delete_experiment" /\ last'.error = "none"
                  /\ last'.result
               THEN [history EXCEPT !.deleted = @ \cup {last'.id}]
          ELSE history

\* (variant: only the first required field is looked at)
MissingRequired_FirstFieldOnly(kwargs) ==
    "experiment_name" \notin DOMAIN kwargs

\* for field in required_fields: if field not in kwargs: raise ValueError
MissingRequired(kwargs) ==
    \E field \in required_fields : field \notin DOMAIN kwargs

add_experiment(kwargs, fault) ==
    IF MissingRequired(kwargs)
    THEN /\ Ready
         /\ fault = "none"
         /\ last' = Call("add_experiment", 0, kwargs, fault,
                         "ValueError", "ValueError", 0)
         /\ Remember
         /\ UNCHANGED <<db, clock, connections, session_state>>
    ELSE LET run == RunStatement(db, ExecInsert(db, kwargs, clock), fault)
             ok == run.error = "none"
         IN  /\ Ready
             /\ ok => run.lastrowid <= MaxId
             /\ db' = run.db
             /\ last' = Call("add_experiment", 0, kwargs, fault, run.raised,
                             run.error, IF ok THEN run.lastrowid ELSE 0)
             /\ Remember
             /\ connections' = connections + StillOpen(run)
             /\ UNCHANGED <<clock, session_state>>

update_experiment(experiment_id, kwargs, fault) ==
    IF DOMAIN kwargs = {}
    THEN /\ Ready
         /\ fault = "none"
         /\ last' = Call("update_experiment", experiment_id, kwargs, fault,
                         "none", "none", FALSE)
         /\ Remember
         /\ UNCHANGED <<db, clock, connections, session_state>>
    ELSE LET run == RunStatement(db, ExecUpdate(db, experiment_id, kwargs), fault)
             ok == run.error = "none"
         IN  /\ Ready
             /\ db' = run.db
             /\ last' = Call("update_experiment", experiment_id, kwargs, fault,
                             run.raised, run.error, ok /\ run.rowcount > 0)
             /\ Remember
             /\ connections' = connections + StillOpen(run)
             /\ UNCHANGED <<clock, session_state>>

\* (variant: "True if successful", whatever the row count)
RowsAffected_Always(rowcount) == rowcount >= 0

\* return cursor.rowcount > 0
RowsAffected(rowcount) == rowcount > 0

delete_experiment(experiment_id, fault) ==
    LET run == RunStatement(db, ExecDelete(db, experiment_id), fault)
        ok == run.error = "none"
    IN  /\ Ready
        /\ db' = run.db
        /\ last' = Call("delete_experiment", experiment_id, EmptyMap, fault,
                        run.raised, run.error, ok /\ RowsAffected(run.rowcount))
        /\ Remember
        /\ connections' = connections + StillOpen(run)
        /\ UNCHANGED <<clock, session_state>>

\* ----------------------------------------------------------------- reads
None == <<>>

\* SELECT * FROM experiments WHERE id = ?  (fetchone; dict(row) or None)
SelectById(d, experiment_id) ==
    LET hit == {r \in d.experiments : r.id = experiment_id}
    IN  IF hit = {} THEN None ELSE <<CHOOSE r \in hit : TRUE>>

\* (variant: ORDER BY created_at ASC)
RECURSIVE OrderByCreatedAtAsc(_)
OrderByCreatedAtAsc(rows) ==
    IF rows = {} THEN <<>>
    ELSE LET first == CHOOSE r \in rows : \A q \in rows :
                          \/ q.created_at > r.created_at
                          \/ q.created_at = r.created_at /\ q.id >= r.id
         IN  <<first>> \o OrderByCreatedAtAsc(rows \ {first})

\* ORDER BY created_at DESC over a scan of the table in rowid order: rows
\* with equal created_at keep the order of the scan, NULL sorts last
RECURSIVE OrderByCreatedAtDesc(_)
OrderByCreatedAtDesc(rows) ==
    IF rows = {} THEN <<>>
    ELSE LET first == CHOOSE r \in rows : \A q \in rows :
                          \/ q.created_at < r.created_at
                          \/ q.created_at = r.created_at /\ q.id >= r.id
         IN  <<first>> \o OrderByCreatedAtDesc(rows \ {first})

\* SELECT * FROM experiments ORDER BY created_at DESC
SelectAll(d) == OrderByCreatedAtDesc(d.experiments)

\* (variant: the WHERE clause is missing)
SelectByStatus_NoWhere(d, status) == OrderByCreatedAtDesc(d.experiments)

\* SELECT * FROM experiments WHERE status = ? ORDER BY created_at DESC
SelectByStatus(d, status) ==
    OrderByCreatedAtDesc({r \in d.experiments : r.status = status})

\* a body that only runs queries and has no commit of its own
RunQuery(d, rows, fault) ==
    LET raised == IF fault = "execute" THEN "StorageError"
                  ELSE IF ~d.table THEN "OperationalError" ELSE "none"
        out == get_connection(Connect(d), raised)
    IN  [db |-> out.conn.committed, open |-> out.conn.open,
         raised |-> raised, error |-> out.error, rows |-> rows]

Read(op, id, status, rows, fault) ==
    LET run == RunQuery(db, rows, fault)
    IN  /\ Ready
        /\ fault # "commit"
        /\ db' = run.db
        /\ last' = Call(op, id, status, fault, run.raised, run.error,
                        IF run.error = "none" THEN run.rows ELSE None)
        /\ Remember
        /\ connections' = connections + StillOpen(run)
        /\ UNCHANGED <<clock, session_state>>

get_experiment_by_id(experiment_id, fault) ==
    Read("get_experiment_by_id", experiment_id, EmptyMap,
         SelectById(db, experiment_id), fault)

get_all_experiments(fault) ==
    Read("get_all_experiments", 0, EmptyMap, SelectAll(db), fault)

get_experiments_by_status(status, fault) ==
    Read("get_experiments_by_status", 0, "status" :> status,
         SelectByStatus(db, status), fault)

\* (variant: `done` is the only status that is not active)
ActiveStatus_AllButDone(status) == status # NULL /\ status # "done"

\* WHERE status NOT IN ('done', 'contaminated'): not true of a NULL status
ActiveStatus(status) ==
    status # NULL /\ status \notin {"done", "contaminated"}

\* (variant: the digits after the first decimal are cut off)
PercentRounded_CutOff(num, den) == (num * 1000) \div den

\* round(num / den * 100, 1): the tenth nearest to the quotient; two tenths
\* are equally near only when den >= 16, and the even one is taken then
PercentRounded(num, den) ==
    LET q == (num * 1000) \div den
        r == (num * 1000) % den
    IN  IF 2 * r > den \/ (2 * r = den /\ q % 2 = 1) THEN q + 1 ELSE q

\* the three SELECT COUNT(*) queries and the success rate made from them
SelectStats(d) ==
    LET total_count == Cardinality(d.experiments)
        active_count ==
            Cardinality({r \in d.experiments : ActiveStatus(r.status)})
        contaminated_count ==
            Cardinality({r \in d.experiments : r.status = "contaminated"})
        success_rate ==
            IF total_count > 0
            THEN PercentRounded(total_count - contaminated_count, total_count)
            ELSE 0
    IN  [total_count |-> total_count, active_count |-> active_count,
         contaminated_count |-> contaminated_count,
         success_rate |-> success_rate]

get_stats(fault) ==
    Read("get_stats", 0, EmptyMap, SelectStats(db), fault)

\* (variant: CREATE TABLE after DROP TABLE IF EXISTS)
ExecCreateTable_DropFirst(d) ==
    [db |-> [table |-> TRUE, experiments |-> {}, seq |-> 0],
     error |-> "none", rowcount |-> 0, lastrowid |-> 0]

\* CREATE TABLE IF NOT EXISTS experiments (...)
ExecCreateTable(d) ==
    [db |-> [d EXCEPT !.table = TRUE],
     error |-> "none", rowcount |-> 0, lastrowid |-> 0]

init_database(fault) ==
    LET run == RunStatement(db, ExecCreateTable(db), fault)
    IN  /\ Ready
        /\ db' = run.db
        /\ last' = Call("init_database", 0, EmptyMap, fault, run.raised,
                        run.error, run.error = "none")
        /\ Remember
        /\ connections' = connections + StillOpen(run)
        /\ UNCHANGED <<clock, session_state>>

\* ------------------------------------------------------------------ spec
\* the application has started: main() has called init_database()
Init ==
    /\ db = [table |-> TRUE, experiments |-> {}, seq |-> 0]
    /\ clock = 1
    /\ last = Idle
    /\ history = [on |-> FALSE, returned |-> {}, deleted |-> {}]
    /\ prev = [db |-> db, history |-> history]
    /\ connections = 0
    /\ session_state = EmptyMap

\* CURRENT_TIMESTAMP advances between operations
Tick ==
    /\ Ready
    /\ clock < MaxClock
    /\ clock' = clock + 1
    /\ UNCHANGED <<db, last, prev, history, connections, session_state>>

\* the call has returned and the caller goes on to its next operation
Return ==
    /\ ~Ready
    /\ last' = Idle
    /\ prev' = [db |-> db, history |-> history]
    /\ UNCHANGED <<db, clock, history, connections, session_state>>

QueryStatuses == Statuses \cup {"contaminated"}

\* the arguments a caller can choose: none while a call is still running
WhenReady(S) == IF Ready THEN S ELSE {}

Operation(fault) ==
    \/ \E kwargs \in WhenReady(CreateKwargs) : add_experiment(kwargs, fault)
    \/ \E id \in WhenReady(Ids), kwargs \in UpdateKwargs :
          update_experiment(id, kwargs, fault)
    \/ \E id \in WhenReady(Ids) : delete_experiment(id, fault)
    \/ \E id \in WhenReady(Ids) : get_experiment_by_id(id, fault)
    \/ get_all_experiments(fault)
    \/ \E status \in WhenReady(QueryStatuses) :
          get_experiments_by_status(status, fault)
    \/ get_stats(fault)
    \/ init_database(fault)

\* every operation runs to completion; the storage layer does not fail
Next ==
    \/ Operation("none")
    \/ Return
    \/ Tick

Spec == Init /\ [][Next]_vars

\* the storage layer may fail while a statement executes or while it commits
Faults == {"none", "execute", "commit"}

NextFault ==
    \/ \E fault \in Faults : Operation(fault)
    \/ Return
    \/ Tick

SpecFault == Init /\ [][NextFault]_vars

\* the same operations with the history recorded
InitHistory ==
    /\ db = [table |-> TRUE, experiments |-> {}, seq |-> 0]
    /\ clock = 1
    /\ last = Idle
    /\ history = [on |-> TRUE, returned |-> {}, deleted |-> {}]
    /\ prev = [db |-> db, history |-> history]
    /\ connections = 0
    /\ session_state = EmptyMap

SpecHistory == InitHistory /\ [][Next]_vars

\* ------------------------------------------------------- a later session
\* The database file outlives the process.  A session finds the file as
\* earlier sessions left it: without the table (a new file), or with the
\* table and up to MaxStored records under the ids 1, 2, ...
SessionStatuses == {"colonizing", "done", "contaminated", "Done"}

NewFields(status) ==
    [k \in required_fields |->
        CASE k = "experiment_name" -> "oyster"
          [] k = "substrate_type" -> "straw"
          [] k = "inoculation_date" -> "2024-01-01"
          [] k = "status" -> status]

StoredFiles ==
    {[table |-> FALSE, experiments |-> {}, seq |-> 0]}
    \cup UNION {{[table |-> TRUE,
                  experiments |->
                      {InsertedRow(NewFields(st[i]), i, 1) : i \in 1..n},
                  seq |-> n] : st \in [1..n -> SessionStatuses]}
                : n \in 0..MaxStored}

InitSession ==
    /\ db \in StoredFiles
    /\ clock = 1
    /\ last = Idle
    /\ history = [on |-> FALSE, returned |-> {}, deleted |-> {}]
    /\ prev = [db |-> db, history |-> history]
    /\ connections = 0
    /\ session_state = EmptyMap

NextSession ==
    \/ \E status \in WhenReady(SessionStatuses) :
          add_experiment(NewFields(status), "none")
    \/ \E id \in WhenReady(1..MaxStored), status \in SessionStatuses :
          update_experiment(id, "status" :> status, "none")
    \/ \E id \in WhenReady(1..MaxStored) : delete_experiment(id, "none")
    \/ get_stats("none")
    \/ init_database("none")
    \/ Return

SpecSession == InitSession /\ [][NextSession]_vars

\* ----------------------------------------------------------------- dates
\* A date object is its proleptic Gregorian ordinal (date.toordinal());
\* None in place of a date is NoInt.  Date text is a string.
Digits == "0123456789"

CharAt(text, i) == SubSeq(text, i, i)

IsDigit(c) == \E i \in 1..Len(Digits) : CharAt(Digits, i) = c

DigitValue(c) == (CHOOSE i \in 1..Len(Digits) : CharAt(Digits, i) = c) - 1

AllDigits(text) == \A i \in 1..Len(text) : IsDigit(CharAt(text, i))

RECURSIVE Number(_)
Number(text) ==
    IF Len(text) = 0 THEN 0
    ELSE 10 * Number(SubSeq(text, 1, Len(text) - 1))
         + DigitValue(CharAt(text, Len(text)))

IsLeap(y) == (y % 4 = 0 /\ y % 100 # 0) \/ y % 400 = 0

DaysInMonth(y, m) ==
    CASE m \in {1, 3, 5, 7, 8, 10, 12} -> 31
      [] m \in {4, 6, 9, 11} -> 30
      [] OTHER -> IF IsLeap(y) THEN 29 ELSE 28

DaysBeforeYear(y) ==
    365 * (y - 1) + ((y - 1) \div 4) - ((y - 1) \div 100) + ((y - 1) \div 400)

RECURSIVE DaysBeforeMonth(_, _)
DaysBeforeMonth(y, m) ==
    IF m = 1 THEN 0 ELSE DaysBeforeMonth(y, m - 1) + DaysInMonth(y, m - 1)

toordinal(y, m, d) == DaysBeforeYear(y) + DaysBeforeMonth(y, m) + d

\* datetime.strptime(text, "%Y-%m-%d").date(): four digits, one or two
\* digits that name a month, one or two digits that name a day of that
\* month, with "-" between them and nothing else; NoInt for ValueError
strptime(text) ==
    LET dashes == {i \in 1..Len(text) : CharAt(text, i) = "-"}
    IN  IF Cardinality(dashes) # 2 THEN NoInt
        ELSE LET i == CHOOSE a \in dashes : \A b \in dashes : a <= b
                 j == CHOOSE a \in dashes : \A b \in dashes : a >= b
                 Y == SubSeq(text, 1, i - 1)
                 M == SubSeq(text, i + 1, j - 1)
                 D == SubSeq(text, j + 1, Len(text))
             IN  IF /\ Len(Y) = 4 /\ AllDigits(Y) /\ Number(Y) >= 1
                    /\ Len(M) \in 1..2 /\ AllDigits(M) /\ Number(M) \in 1..12
                    /\ Len(D) \in 1..2 /\ AllDigits(D)
                    /\ Number(D) \in 1..DaysInMonth(Number(Y), Number(M))
                 THEN toordinal(Number(Y), Number(M), Number(D))
                 ELSE NoInt

\* ----------------------------------------------------------- data frames
\* A DataFrame is its column labels and its rows in order.  A variable of
\* the page holds a frame object; `shared` tells whether filtered_df is
\* still the object the caller passed in.
DataFrame(rows) == [columns |-> Columns, rows |-> rows]

\* (variant: filtered_df = df)
Copy_SameObject(df) == [df |-> df, filtered_df |-> df, shared |-> TRUE]

\* filtered_df = df.copy()
Copy(df) == [df |-> df, filtered_df |-> df, shared |-> FALSE]

RECURSIVE Reversed(_)
Reversed(seq) ==
    IF seq = <<>> THEN <<>> ELSE Reversed(Tail(seq)) \o <<Head(seq)>>

\* the rows of filtered_df, to build a boolean mask from: a mask is the set
\* of the rows at which it is True
Rows(f) == {f.filtered_df.rows[i] : i \in 1..Len(f.filtered_df.rows)}

\* (variant: the selected rows come out last row first)
Where_Reversed(f, mask) ==
    [f EXCEPT !.filtered_df.rows = Reversed(SelectSeq(@, LAMBDA r : r \in mask)),
              !.shared = FALSE]

\* filtered_df = filtered_df[mask]: a new frame with the rows the mask keeps
Where(f, mask) ==
    [f EXCEPT !.filtered_df.rows = SelectSeq(@, LAMBDA r : r \in mask),
              !.shared = FALSE]

\* filtered_df[column] = ...: a column is added to the object in place
AssignColumn(f, column) ==
    [f EXCEPT !.filtered_df.columns = @ \cup {column},
              !.df.columns = IF f.shared THEN @ \cup {column} ELSE @]

\* filtered_df = filtered_df.drop(column, axis=1): a new frame without it
DropColumn(f, column) ==
    [f EXCEPT !.filtered_df.columns = @ \ {column}, !.shared = FALSE]

\* (variant: an empty selection selects nothing)
Selected_Always(values) == TRUE

\* `if status_filter:` - a list is true when it is not empty
Selected(values) == values # {}

\* `if search_term:` - a string is true when it is neither None nor empty
Entered(text) == text # NULL /\ text # ""

UpperCase == "ABCDEFGHIJKLMNOPQRSTUVWXYZ"
LowerCase == "abcdefghijklmnopqrstuvwxyz"

ToLower ==
    [c \in {CharAt(UpperCase, i) : i \in 1..Len(UpperCase)} |->
        CharAt(LowerCase, CHOOSE i \in 1..Len(UpperCase) : CharAt(UpperCase, i) = c)]

Lower(c) == IF c \in DOMAIN ToLower THEN ToLower[c] ELSE c

\* the characters of a text, each in lower case
LowerChars(text) == [i \in 1..Len(text) |-> Lower(CharAt(text, i))]

\* re.compile(pat, re.IGNORECASE) for patterns made of letters, digits,
\* spaces, "." and "(": a "(" that is never closed is re.error
re_compiles(pat) == \A i \in 1..Len(pat) : CharAt(pat, i) # "("

\* pat.search(text): "." matches any one character, every other character
\* of the pattern matches itself in either case
re_search(pat, text) ==
    LET p == LowerChars(pat)
        t == LowerChars(text)
    IN  \E i \in 0..(Len(t) - Len(p)) :
            \A j \in 1..Len(p) : p[j] = "." \/ p[j] = t[i + j]

\* Series.str.contains(pat, case=False, na=False), regex=True by default
str_contains(text, pat) == text # NULL /\ re_search(pat, text)

\* pd.to_datetime of ISO date text, and of a date object: midnight of the
\* day, here the day itself; NoInt for text that is no date
to_datetime(text) == strptime(text)

\* (variant: the end of the range is not part of it)
InRange_EndExcluded(day, start_date, end_date) ==
    day >= start_date /\ day < end_date

\* (inoculation_date_dt >= start_date) & (inoculation_date_dt <= end_date)
InRange(day, start_date, end_date) == day >= start_date /\ day <= end_date

Raised(f, kind) == [error |-> kind, df |-> f.df, filtered_df |-> None]

filter_experiments(df, status_filter, substrate_filter, search_term, date_range) ==
    LET f0 == Copy(df)
        f1 == IF Selected(status_filter)
              THEN Where(f0, {r \in Rows(f0) : r.status \in status_filter})
              ELSE f0
        f2 == IF Selected(substrate_filter)
              THEN Where(f1, {r \in Rows(f1) : r.substrate_type \in substrate_filter})
              ELSE f1
        f3 == IF Entered(search_term)
              THEN Where(f2, {r \in Rows(f2) :
                                 str_contains(r.experiment_name, search_term)})
              ELSE f2
        dated == date_range[1] # NoInt /\ date_range[2] # NoInt
        f4 == AssignColumn(f3, "inoculation_date_dt")
        f5 == Where(f4, {r \in Rows(f4) :
                            InRange(to_datetime(r.inoculation_date),
                                    date_range[1], date_range[2])})
        f6 == DropColumn(f5, "inoculation_date_dt")
    IN  IF Entered(search_term) /\ ~re_compiles(search_term)
        THEN Raised(f2, "re.error")
        ELSE IF ~dated
        THEN [error |-> "none", df |-> f3.df, filtered_df |-> f3.filtered_df]
        ELSE IF \E i \in 1..Len(f3.filtered_df.rows) :
                    to_datetime(f3.filtered_df.rows[i].inoculation_date) = NoInt
        THEN Raised(f3, "ValueError")
        ELSE [error |-> "none", df |-> f6.df, filtered_df |-> f6.filtered_df]

\* filter_data of the Analytics page: the date range first, the helper
\* column stays in the result
filter_data(df, date_range, substrate_filter, exclude_contaminated) ==
    LET f0 == Copy(df)
        dated == date_range[1] # NoInt /\ date_range[2] # NoInt
        f1 == IF dated
              THEN Where(AssignColumn(f0, "inoculation_date_dt"),
                         {r \in Rows(f0) :
                             InRange(to_datetime(r.inoculation_date),
                                     date_range[1], date_range[2])})
              ELSE f0
        f2 == IF Selected(substrate_filter)
              THEN Where(f1, {r \in Rows(f1) : r.substrate_type \in substrate_filter})
              ELSE f1
        f3 == IF exclude_contaminated
              THEN Where(f2, {r \in Rows(f2) : r.status # "contaminated"})
              ELSE f2
    IN  IF dated /\ \E i \in 1..Len(df.rows) :
                       to_datetime(df.rows[i].inoculation_date) = NoInt
        THEN Raised(f0, "ValueError")
        ELSE [error |-> "none", df |-> f3.df, filtered_df |-> f3.filtered_df]

\* ---------------------------------------------------- analytics charts
RECURSIVE SumOf(_)
SumOf(values) ==
    IF values = <<>> THEN 0 ELSE Head(values) + SumOf(Tail(values))

\* (variant: every status of the application has an entry)
value_counts_ZeroFilled(values) ==
    LET present == ({values[i] : i \in 1..Len(values)} \ {NULL})
                   \cup {"inoculating", "colonizing", "fruiting", "done",
                         "contaminated"}
    IN  [v \in present |->
            Cardinality({i \in 1..Len(values) : values[i] = v})]

\* Series.value_counts(): the values that occur, NaN left out, each with the
\* number of rows that have it
value_counts(values) ==
    LET present == {values[i] : i \in 1..Len(values)} \ {NULL}
    IN  [v \in present |->
            Cardinality({i \in 1..Len(values) : values[i] = v})]

\* (variant: inoculation minus colonization)
calculate_days_to_colonization_Reversed(row) ==
    IF row.inoculation_date = NULL \/ row.colonization_date = NULL
    THEN None
    ELSE <<to_datetime(row.inoculation_date)
           - to_datetime(row.colonization_date)>>

\* (colon_date - inoc_date).days, None when either date is missing
calculate_days_to_colonization(row) ==
    IF row.inoculation_date = NULL \/ row.colonization_date = NULL
    THEN None
    ELSE <<to_datetime(row.colonization_date)
           - to_datetime(row.inoculation_date)>>

\* Series.round(1) of a mean, in tenths: the tenth nearest to total / count,
\* the even one of two equally near
MeanRounded(total, count) ==
    LET q == (total * 10) \div count
        r == (total * 10) % count
    IN  IF 2 * r > count \/ (2 * r = count /\ q % 2 = 1) THEN q + 1 ELSE q

\* filtered_df[filtered_df['colonization_date'].notna()], then the rows
\* whose days_to_colonization is not null
df_with_colon(rows) ==
    SelectSeq(SelectSeq(rows, LAMBDA r : r.colonization_date # NULL),
              LAMBDA r : calculate_days_to_colonization(r) # None)

\* groupby('substrate_type')['days_to_colonization'].agg(['mean', 'count']),
\* the mean rounded to one decimal
avg_colonization(rows) ==
    LET known == df_with_colon(rows)
        Group(g) == SelectSeq(known, LAMBDA r : r.substrate_type = g)
        Days(g) == [i \in 1..Len(Group(g)) |->
                       calculate_days_to_colonization(Group(g)[i])[1]]
    IN  [g \in {known[i].substrate_type : i \in 1..Len(known)} \ {NULL} |->
            [Avg_Days |-> MeanRounded(SumOf(Days(g)), Len(Group(g))),
             Count |-> Len(Group(g))]]

\* (variant: only finished experiments count as successful)
IsSuccessful_DoneOnly(status) == status = "done"

\* lambda x: (x != 'contaminated')
IsSuccessful(status) == status # "contaminated"

\* groupby('substrate_type').agg({'id': 'count', 'status': ...}) and the two
\* columns made from it
success_data(rows) ==
    LET Group(g) == SelectSeq(rows, LAMBDA r : r.substrate_type = g)
        Total(g) == Len(SelectSeq(Group(g), LAMBDA r : r.id # NoInt))
        Successful(g) ==
            Len(SelectSeq(Group(g), LAMBDA r : IsSuccessful(r.status)))
    IN  [g \in {rows[i].substrate_type : i \in 1..Len(rows)} \ {NULL} |->
            [Total |-> Total(g),
             Successful |-> Successful(g),
             Success_Rate |-> PercentRounded(Successful(g), Total(g)),
             Contaminated |-> Total(g) - Successful(g)]]

\* the group keys of groupby, in ascending order
RECURSIVE Ascending(_)
Ascending(keys) ==
    IF keys = {} THEN <<>>
    ELSE LET least == CHOOSE a \in keys : \A b \in keys : a <= b
         IN  <<least>> \o Ascending(keys \ {least})

\* (variant: the counts are not accumulated)
cumsum_PerDate(counts) == counts

\* Series.cumsum()
cumsum(counts) == [k \in 1..Len(counts) |-> SumOf(SubSeq(counts, 1, k))]

\* sort_values('inoculation_date_dt'), groupby(...).size(), cumsum()
timeline_counts(rows) ==
    LET day == [i \in 1..Len(rows) |-> to_datetime(rows[i].inoculation_date)]
        dates == Ascending({day[i] : i \in 1..Len(rows)})
        Count == [k \in 1..Len(dates) |->
                     Cardinality({i \in 1..Len(rows) : day[i] = dates[k]})]
        Cumulative == cumsum(Count)
    IN  [k \in 1..Len(dates) |->
            [Date |-> dates[k], Count |-> Count[k],
             Cumulative |-> Cumulative[k]]]

\* pd.to_datetime raises on text that is no date
ChartsRaise(rows) ==
    \E i \in 1..Len(rows) :
        \/ to_datetime(rows[i].inoculation_date) = NoInt
        \/ /\ rows[i].colonization_date # NULL
           /\ to_datetime(rows[i].colonization_date) = NoInt

\* the four charts of the Analytics page
Charts(rows) ==
    [status_counts |->
         value_counts([i \in 1..Len(rows) |-> rows[i].status]),
     avg_colonization |-> avg_colonization(rows),
     success_data |-> success_data(rows),
     timeline_counts |-> timeline_counts(rows)]

\* the Analytics page: load all experiments, read the sidebar, filter, and
\* draw the charts of the records that are left (with no experiment on file
\* the page ends before it filters, with none left before it draws)
Analytics_main(date_range, substrate_filter, exclude_contaminated) ==
    LET df == DataFrame(SelectAll(db))
        out == filter_data(df, date_range, substrate_filter,
                           exclude_contaminated)
        rows == IF out.error = "none" THEN out.filtered_df.rows ELSE <<>>
        error == IF out.error # "none" THEN out.error
                 ELSE IF ChartsRaise(rows) THEN "ValueError"
                 ELSE "none"
    IN  /\ Ready
        /\ db.table
        /\ db.experiments # {}
        /\ last' = Call("filter_data", 0,
                        [df |-> df, substrate_filter |-> substrate_filter,
                         exclude_contaminated |-> exclude_contaminated,
                         date_range |-> date_range],
                        "none", error, error,
                        [df |-> out.df, filtered_df |-> out.filtered_df,
                         charts |-> IF rows # <<>> /\ error = "none"
                                    THEN Charts(rows) ELSE None])
        /\ Remember
        /\ UNCHANGED <<db, clock, connections, session_state>>

\* the View Experiments page: load all experiments, read the sidebar, filter
\* (with no experiment on file the page ends before it filters)
View_Experiments_main(status_filter, substrate_filter, search_term, date_range) ==
    LET df == DataFrame(SelectAll(db))
        out == filter_experiments(df, status_filter, substrate_filter,
                                  search_term, date_range)
    IN  /\ Ready
        /\ db.table
        /\ db.experiments # {}
        /\ last' = Call("filter_experiments", 0,
                        [df |-> df, status_filter |-> status_filter,
                         substrate_filter |-> substrate_filter,
                         search_term |-> search_term,
                         date_range |-> date_range],
                        "none", out.error, out.error,
                        [df |-> out.df, filtered_df |-> out.filtered_df])
        /\ Remember
        /\ UNCHANGED <<db, clock, connections, session_state>>

\* the records on file when the page is opened: up to MaxStored of these
Catalogue ==
    {[experiment_name |-> "Oyster A", substrate_type |-> "straw",
      inoculation_date |-> "2024-01-10", status |-> "colonizing"],
     [experiment_name |-> "oyster.b", substrate_type |-> "cardboard",
      inoculation_date |-> "2024-02-01", status |-> "done"],
     [experiment_name |-> "Shiitake", substrate_type |-> "straw",
      inoculation_date |-> "2024-01-31", status |-> "done"],
     [experiment_name |-> "Lions Mane", substrate_type |-> "cardboard",
      inoculation_date |-> "2023-12-31", status |-> "contaminated"]}

CatalogueFiles ==
    UNION {{[table |-> TRUE,
             experiments |-> {InsertedRow(kind[i], i, i) : i \in 1..n},
             seq |-> n] : kind \in [1..n -> Catalogue]}
           : n \in 1..MaxStored}

StatusFilters == {{}, {"done"}, {"colonizing", "done"}, {"fruiting"}}

SubstrateFilters == {{}, {"straw"}}

SearchTerms == {NULL, "", "OYS", "r.b", "r.a", "("}

DateBounds(y, m, d) == {NoInt, toordinal(y, m, d)}

InitFilter ==
    /\ db \in CatalogueFiles
    /\ clock = 1
    /\ last = Idle
    /\ history = [on |-> FALSE, returned |-> {}, deleted |-> {}]
    /\ prev = [db |-> db, history |-> history]
    /\ connections = 0
    /\ session_state = EmptyMap

NextFilter ==
    \/ \E status_filter \in WhenReady(StatusFilters),
          substrate_filter \in SubstrateFilters,
          search_term \in SearchTerms,
          start_date \in DateBounds(2024, 1, 10),
          end_date \in DateBounds(2024, 1, 31) :
          View_Experiments_main(status_filter, substrate_filter, search_term,
                                <<start_date, end_date>>)
    \/ \E start_date \in WhenReady(DateBounds(2024, 1, 10)),
          end_date \in DateBounds(2024, 1, 31),
          substrate_filter \in SubstrateFilters,
          exclude_contaminated \in BOOLEAN :
          Analytics_main(<<start_date, end_date>>, substrate_filter,
                         exclude_contaminated)
    \/ Return

SpecFilter == InitFilter /\ [][NextFilter]_vars

\* the records on file when the Analytics page is opened
AnalyticsCatalogue ==
    {[experiment_name |-> "oyster", substrate_type |-> "cardboard",
      inoculation_date |-> "2024-01-01", status |-> "contaminated"],
     [experiment_name |-> "oyster", substrate_type |-> "cardboard",
      inoculation_date |-> "2024-01-01", status |-> "done",
      colonization_date |-> "2024-01-15"],
     [experiment_name |-> "oyster", substrate_type |-> "straw",
      inoculation_date |-> "2024-01-03", status |-> "colonizing"],
     [experiment_name |-> "oyster", substrate_type |-> "cardboard",
      inoculation_date |-> "2024-01-03", status |-> "done",
      colonization_date |-> "2024-01-10"]}

AnalyticsFiles ==
    UNION {{[table |-> TRUE,
             experiments |-> {InsertedRow(kind[i], i, i) : i \in 1..n},
             seq |-> n] : kind \in [1..n -> AnalyticsCatalogue]}
           : n \in 1..MaxStored}

InitAnalytics ==
    /\ db \in AnalyticsFiles
    /\ clock = 1
    /\ last = Idle
    /\ history = [on |-> FALSE, returned |-> {}, deleted |-> {}]
    /\ prev = [db |-> db, history |-> history]
    /\ connections = 0
    /\ session_state = EmptyMap

NextAnalytics ==
    \/ \E start_date \in WhenReady(DateBounds(2024, 1, 1)),
          end_date \in DateBounds(2024, 1, 3),
          substrate_filter \in {{}, {"cardboard"}},
          exclude_contaminated \in BOOLEAN :
          Analytics_main(<<start_date, end_date>>, substrate_filter,
                         exclude_contaminated)
    \/ Return

SpecAnalytics == InitAnalytics /\ [][NextAnalytics]_vars

\* ----------------------------------------------------- days elapsed
\* A Python value handed to a calculator: its type and, by type, its text
\* (str), its day (date, datetime), its second of the day (datetime) or its
\* number (int).  A calculator returns <<days>> or None, or raises.
Value(type, text, day, second, number) ==
    [type |-> type, text |-> text, day |-> day, second |-> second,
     number |-> number]

Str(text) == Value("str", text, 0, 0, 0)

NoneValue == Value("NoneType", "", 0, 0, 0)

DateValue(y, m, d) == Value("date", "", toordinal(y, m, d), 0, 0)

DateTimeValue(y, m, d, second) ==
    Value("datetime", "", toordinal(y, m, d), second, 0)

IntValue(n) == Value("int", "", 0, 0, n)

Returns(value) == [error |-> "none", value |-> value]

Raises(kind) == [error |-> kind, value |-> None]

\* (variant: the distance between the two days)
Delta_Distance(end_day, start_day) ==
    IF end_day >= start_day THEN end_day - start_day ELSE start_day - end_day

\* delta = end_date - start_date; delta.days
Delta(end_day, start_day) == end_day - start_day

\* utils/calculations.py: the body of the try block, and what the except
\* clause (ValueError, TypeError, AttributeError) makes of it
calculate_days_elapsed(start_date, end_date, today) ==
    LET start_day ==
            CASE start_date.type = "str" -> strptime(start_date.text)
              [] start_date.type \in {"date", "datetime"} -> start_date.day
              [] OTHER -> NoInt
        end_day ==
            CASE end_date.type = "NoneType" -> today
              [] end_date.type = "str" -> strptime(end_date.text)
              [] end_date.type \in {"date", "datetime"} -> end_date.day
              [] OTHER -> NoInt
    IN  IF start_date.type \notin {"str", "date", "datetime"}
        THEN Returns(None)
        ELSE IF start_day = NoInt
        THEN Returns(None)
        ELSE IF end_day = NoInt
        THEN Returns(None)
        ELSE Returns(<<Delta(end_day, start_day)>>)

\* pages/2_View_Experiments.py calculate_days_elapsed and app.py
\* calculate_days_since_inoculation, which have the same body: no try block
calculate_days_since_inoculation(inoculation_date, today) ==
    IF inoculation_date.type = "NoneType"
    THEN Returns(None)
    ELSE IF inoculation_date.type = "str"
    THEN IF strptime(inoculation_date.text) = NoInt
         THEN Raises("ValueError")
         ELSE Returns(<<Delta(today, strptime(inoculation_date.text))>>)
    ELSE IF inoculation_date.type \in {"date", "datetime"}
    THEN Returns(<<Delta(today, inoculation_date.day)>>)
    ELSE Raises("TypeError")

Calculated(op, start_date, end_date, out) ==
    /\ Ready
    /\ last' = Call(op, 0, [start_date |-> start_date, end_date |-> end_date],
                    "none", out.error, out.error, out.value)
    /\ Remember
    /\ UNCHANGED <<db, clock, connections, session_state>>

\* in this specification `clock` is date.today(), a day
utils_calculate_days_elapsed(start_date, end_date) ==
    Calculated("utils.calculate_days_elapsed", start_date, end_date,
               calculate_days_elapsed(start_date, end_date, clock))

View_calculate_days_elapsed(inoculation_date) ==
    Calculated("View_Experiments.calculate_days_elapsed", inoculation_date,
               NoneValue, calculate_days_since_inoculation(inoculation_date, clock))

app_calculate_days_since_inoculation(inoculation_date) ==
    Calculated("app.calculate_days_since_inoculation", inoculation_date,
               NoneValue, calculate_days_since_inoculation(inoculation_date, clock))

StartDates ==
    {Str("2024-01-10"), Str("2024-02-29"), Str("2024-03-15"),
     Str("2023-02-29"), Str("01/02/2024"), Str("2024-01-10 13:00:00"),
     Str(""), NoneValue, IntValue(20240110),
     DateValue(2024, 1, 31), DateTimeValue(2024, 2, 1, 46800)}

EndDates ==
    {NoneValue, Str("2024-03-01"), Str("soon"), IntValue(5),
     DateValue(2024, 1, 31), DateTimeValue(2024, 2, 1, 46800)}

Todays == {toordinal(2024, 2, 1), toordinal(2024, 12, 31)}

InitDays ==
    /\ db = [table |-> TRUE, experiments |-> {}, seq |-> 0]
    /\ clock \in Todays
    /\ last = Idle
    /\ history = [on |-> FALSE, returned |-> {}, deleted |-> {}]
    /\ prev = [db |-> db, history |-> history]
    /\ connections = 0
    /\ session_state = EmptyMap

NextDays ==
    \/ \E start_date \in WhenReady(StartDates), end_date \in EndDates :
          utils_calculate_days_elapsed(start_date, end_date)
    \/ \E inoculation_date \in WhenReady(StartDates) :
          View_calculate_days_elapsed(inoculation_date)
    \/ \E inoculation_date \in WhenReady(StartDates) :
          app_calculate_days_since_inoculation(inoculation_date)
    \/ Return

SpecDays == InitDays /\ [][NextDays]_vars

\* ---------------------------------------------------------------- rates
\* Percentages are counted in tenths of a percent, weights in grams: a
\* substrate_weight_kg of 1.0 is 1000.
\* (variant: the share of the contaminated experiments)
calculate_success_rate_Contaminated(total, contaminated) ==
    IF total <= 0 THEN 0 ELSE PercentRounded(contaminated, total)

\* round((total - contaminated) / total * 100, 1), 0.0 when total <= 0
calculate_success_rate(total, contaminated) ==
    IF total <= 0 THEN 0 ELSE PercentRounded(total - contaminated, total)

\* (variant: the harvest weight is not looked at)
calculate_biological_efficiency_AnyHarvest(harvest_weight_grams, substrate_weight_kg) ==
    IF substrate_weight_kg <= 0 THEN None
    ELSE <<PercentRounded(harvest_weight_grams, substrate_weight_kg)>>

\* round(harvest_weight_grams / (substrate_weight_kg * 1000) * 100, 1), None
\* for a substrate weight that is not positive or a negative harvest
calculate_biological_efficiency(harvest_weight_grams, substrate_weight_kg) ==
    IF substrate_weight_kg <= 0 \/ harvest_weight_grams < 0 THEN None
    ELSE <<PercentRounded(harvest_weight_grams, substrate_weight_kg)>>

utils_calculate_success_rate(total, contaminated) ==
    /\ Ready
    /\ last' = Call("calculate_success_rate", 0,
                    [total |-> total, contaminated |-> contaminated],
                    "none", "none", "none",
                    calculate_success_rate(total, contaminated))
    /\ Remember
    /\ UNCHANGED <<db, clock, connections, session_state>>

utils_calculate_biological_efficiency(harvest_weight_grams, substrate_weight_kg) ==
    /\ Ready
    /\ last' = Call("calculate_biological_efficiency", 0,
                    [harvest_weight_grams |-> harvest_weight_grams,
                     substrate_weight_kg |-> substrate_weight_kg],
                    "none", "none", "none",
                    calculate_biological_efficiency(harvest_weight_grams,
                                                    substrate_weight_kg))
    /\ Remember
    /\ UNCHANGED <<db, clock, connections, session_state>>

HarvestWeights == {0 - 1, 0, 500, 1500}

SubstrateWeights == {0 - 1000, 0, 1000, 3000}

InitRates ==
    /\ db = [table |-> TRUE, experiments |-> {}, seq |-> 0]
    /\ clock = 1
    /\ last = Idle
    /\ history = [on |-> FALSE, returned |-> {}, deleted |-> {}]
    /\ prev = [db |-> db, history |-> history]
    /\ connections = 0
    /\ session_state = EmptyMap

NextRates ==
    \/ \E total \in WhenReady((0 - 1)..MaxTotal), contaminated \in 0..MaxTotal :
          utils_calculate_success_rate(total, contaminated)
    \/ \E harvest_weight_grams \in WhenReady(HarvestWeights),
          substrate_weight_kg \in SubstrateWeights :
          utils_calculate_biological_efficiency(harvest_weight_grams,
                                                substrate_weight_kg)
    \/ Return

SpecRates == InitRates /\ [][NextRates]_vars

\* ------------------------------------------------ add experiment form
\* str.strip() of a text typed into the form
RECURSIVE strip(_)
strip(text) ==
    IF Len(text) = 0 THEN text
    ELSE IF CharAt(text, 1) = " " THEN strip(SubSeq(text, 2, Len(text)))
    ELSE IF CharAt(text, Len(text)) = " "
    THEN strip(SubSeq(text, 1, Len(text) - 1))
    ELSE text

\* date.fromordinal: the year, the month and the day of the month of a day
YearOf(day) ==
    CHOOSE y \in ((day \div 366) + 1)..((day \div 365) + 1) :
        DaysBeforeYear(y) < day /\ day <= DaysBeforeYear(y + 1)

MonthOf(y, n) ==
    CHOOSE m \in 1..12 :
        DaysBeforeMonth(y, m) < n /\ n <= DaysBeforeMonth(y, m) + DaysInMonth(y, m)

DayOfMonth(y, n) == n - DaysBeforeMonth(y, MonthOf(y, n))

RECURSIVE ZeroPadded(_, _)
ZeroPadded(n, width) ==
    IF width = 0 THEN ""
    ELSE ZeroPadded(n \div 10, width - 1) \o CharAt(Digits, (n % 10) + 1)

Formatted(y, n) ==
    ZeroPadded(y, 4) \o "-" \o ZeroPadded(MonthOf(y, n), 2) \o "-"
        \o ZeroPadded(DayOfMonth(y, n), 2)

\* date.strftime("%Y-%m-%d")
strftime(day) == Formatted(YearOf(day), day - DaysBeforeYear(YearOf(day)))

\* (variant: a date in the future is accepted)
validate_form_AnyDate(experiment_name, substrate_type, inoculation_date, today) ==
    (IF experiment_name = "" \/ strip(experiment_name) = ""
     THEN <<"Experiment name is required">> ELSE <<>>)
    \o (IF substrate_type = ""
        THEN <<"Substrate type is required">> ELSE <<>>)
    \o (IF inoculation_date = NoInt
        THEN <<"Inoculation date is required">> ELSE <<>>)

\* the list of the messages for what is wrong with the form
validate_form(experiment_name, substrate_type, inoculation_date, today) ==
    (IF experiment_name = "" \/ strip(experiment_name) = ""
     THEN <<"Experiment name is required">> ELSE <<>>)
    \o (IF substrate_type = ""
        THEN <<"Substrate type is required">> ELSE <<>>)
    \o (IF inoculation_date = NoInt
        THEN <<"Inoculation date is required">>
        ELSE IF inoculation_date > today
        THEN <<"Inoculation date cannot be in the future">>
        ELSE <<>>)

\* the form is submitted: validate, then create the experiment; an error of
\* the store is shown on the page and goes no further.  The fields that are
\* not validated keep the values the form opens with.  In this
\* specification `clock` is date.today().
Add_Experiment_main(experiment_name, substrate_type, inoculation_date, status, fault) ==
    LET errors == validate_form(experiment_name, substrate_type,
                                inoculation_date, clock)
        form == [experiment_name |-> experiment_name,
                 substrate_type |-> substrate_type,
                 inoculation_date |-> inoculation_date, status |-> status]
        experiment_data ==
            [experiment_name |-> strip(experiment_name),
             substrate_type |-> substrate_type,
             substrate_details |-> NULL,
             spawn_ratio |-> "10.0",
             substrate_weight_kg |-> NULL,
             container_type |-> "bucket",
             inoculation_date |-> strftime(inoculation_date),
             status |-> status,
             notes |-> NULL]
        run == RunStatement(db, ExecInsert(db, experiment_data, clock), fault)
        ok == run.error = "none"
    IN  IF errors # <<>>
        THEN /\ Ready
             /\ fault = "none"
             /\ last' = Call("Add_Experiment.main", 0, form, fault, "none",
                             "none", [errors |-> errors, experiment_id |-> NoInt])
             /\ Remember
             /\ UNCHANGED <<db, clock, connections, session_state>>
        ELSE /\ Ready
             /\ ~MissingRequired(experiment_data)
             /\ ok => run.lastrowid <= MaxId
             /\ db' = run.db
             /\ last' = Call("Add_Experiment.main", 0, form, fault, run.raised,
                             "none",
                             [errors |-> errors,
                              experiment_id |-> IF ok THEN run.lastrowid
                                                ELSE NoInt])
             /\ Remember
             /\ connections' = connections + StillOpen(run)
             /\ UNCHANGED <<clock, session_state>>

\* what can be typed and chosen; the date widget of the browser is not
\* relied upon to keep the date within its bounds
FormNames == {"", "   ", " Oyster ", "Shiitake"}

FormSubstrates == {"", "straw"}

FormDates == {NoInt, clock - 1, clock, clock + 1}

FormStatuses == {"inoculating", "colonizing"}

InitForm ==
    /\ db = [table |-> TRUE, experiments |-> {}, seq |-> 0]
    /\ clock \in Todays
    /\ last = Idle
    /\ history = [on |-> FALSE, returned |-> {}, deleted |-> {}]
    /\ prev = [db |-> db, history |-> history]
    /\ connections = 0
    /\ session_state = EmptyMap

NextForm ==
    \/ \E experiment_name \in WhenReady(FormNames),
          substrate_type \in FormSubstrates,
          inoculation_date \in FormDates,
          status \in FormStatuses,
          fault \in {"none", "commit"} :
          Add_Experiment_main(experiment_name, substrate_type,
                              inoculation_date, status, fault)
    \/ Return

SpecForm == InitForm /\ [][NextForm]_vars

\* ------------------------------------------- view page: edit and delete
\* the three `if key not in st.session_state:` at the top of the page
InitializedState(ss) ==
    [selected_experiment_id |->
         IF "selected_experiment_id" \in DOMAIN ss
         THEN ss.selected_experiment_id ELSE NoInt,
     edit_mode |-> IF "edit_mode" \in DOMAIN ss THEN ss.edit_mode ELSE FALSE,
     delete_confirm |->
         IF "delete_confirm" \in DOMAIN ss THEN ss.delete_confirm ELSE FALSE]

\* (variant: the confirmation is shown without having been asked for)
DeleteConfirmShown_Always(ss) == TRUE

\* `if st.session_state.delete_confirm:`
DeleteConfirmShown(ss) == ss.delete_confirm

\* the options of the status selectbox of the edit form
EditStatuses ==
    {"inoculating", "colonizing", "pinning", "fruiting", "done",
     "contaminated"}

\* How a run of the script ends: the store and the session state it leaves,
\* the buttons it has put on the page, the value of the selectbox, whether
\* it ended in st.rerun(), the store operations it called, what the store
\* raised, the exception that ended the run if one did, and the connections
\* left open.
PageEnd(d, ss, buttons, selected_id, rerun, called, raised, error, open) ==
    [db |-> d, session_state |-> ss, buttons |-> buttons,
     selected_id |-> selected_id, rerun |-> rerun, called |-> called,
     raised |-> raised, error |-> error, open |-> open]

\* The page from `if experiment:` on: the details of the selected record,
\* the buttons or the form that manage it, and the confirmation of a delete.
\* `queries` is what the reads of the run have left open.
\* The form's own "Cancel" is written "Cancel edit".
Details(d, ss, selected_id, experiment, pressed, new_status, fault, queries) ==
    LET update_data == [status |-> new_status, colonization_date |-> NULL,
                        first_pin_date |-> NULL, contamination_type |-> NULL,
                        contamination_notes |-> NULL, notes |-> NULL]
        upd == RunStatement(d, ExecUpdate(d, selected_id, update_data), fault)
        del == RunStatement(d, ExecDelete(d, selected_id), fault)
        manage == IF ss.edit_mode
                  THEN {"Clear All Filters", "Save Changes", "Cancel edit"}
                  ELSE {"Clear All Filters", "Edit Experiment",
                        "Delete Experiment"}
        confirm == IF DeleteConfirmShown(ss)
                   THEN {"Yes, Delete", "Cancel"} ELSE {}
        saved == pressed = "Save Changes" /\ ss.edit_mode
        seen == {"get_all_experiments", "get_experiment_by_id"}
                \cup (IF saved THEN {"update_experiment"} ELSE {})
    IN  IF ~ss.edit_mode /\ pressed = "Edit Experiment"
        THEN PageEnd(d, [ss EXCEPT !.edit_mode = TRUE], manage, selected_id,
                     TRUE, seen, "none", "none", queries)
        ELSE IF ~ss.edit_mode /\ pressed = "Delete Experiment"
        THEN PageEnd(d, [ss EXCEPT !.delete_confirm = TRUE], manage,
                     selected_id, TRUE, seen, "none", "none", queries)
        ELSE IF ss.edit_mode /\ experiment.status \notin EditStatuses
        THEN PageEnd(d, ss, {"Clear All Filters"}, selected_id, FALSE, seen,
                     "ValueError", "ValueError", queries)
        ELSE IF saved /\ upd.error = "none"
        THEN PageEnd(upd.db, [ss EXCEPT !.edit_mode = FALSE], manage,
                     selected_id, TRUE, seen, "none", "none",
                     queries + StillOpen(upd))
        ELSE IF ss.edit_mode /\ pressed = "Cancel edit"
        THEN PageEnd(d, [ss EXCEPT !.edit_mode = FALSE], manage, selected_id,
                     TRUE, seen, "none", "none", queries)
        ELSE IF DeleteConfirmShown(ss) /\ pressed = "Yes, Delete"
        THEN IF del.error = "none"
             THEN PageEnd(del.db,
                          [ss EXCEPT !.selected_experiment_id = NoInt,
                                     !.delete_confirm = FALSE],
                          manage \cup confirm, selected_id, TRUE,
                          seen \cup {"delete_experiment"}, "none", "none",
                          queries + StillOpen(del))
             ELSE PageEnd(del.db, ss, manage \cup confirm, selected_id, FALSE,
                          seen \cup {"delete_experiment"}, del.raised, "none",
                          queries + StillOpen(del))
        ELSE IF DeleteConfirmShown(ss) /\ pressed = "Cancel"
        THEN PageEnd(d, [ss EXCEPT !.delete_confirm = FALSE],
                     manage \cup confirm, selected_id, TRUE, seen, "none",
                     "none", queries)
        ELSE PageEnd(IF saved THEN upd.db ELSE d, ss, manage \cup confirm,
                     selected_id, FALSE, seen,
                     IF saved THEN upd.raised ELSE "none", "none",
                     queries + (IF saved THEN StillOpen(upd) ELSE 0))

\* the value of st.selectbox: the record chosen in this run, else the value
\* it had before if that is still an option, else the first option
Selectbox(experiment_ids, kept, pressed, choice) ==
    LET options == {experiment_ids[i] : i \in 1..Len(experiment_ids)}
    IN  IF pressed = "none" /\ choice \in options THEN choice
        ELSE IF kept \in options THEN kept
        ELSE experiment_ids[1]

\* The page from the selectbox on.
Selection(d, ss, selected_id, pressed, new_status, fault, queries) ==
    LET read == RunQuery(d, SelectById(d, selected_id), "none")
    IN  IF selected_id = NoInt
        THEN PageEnd(d, ss, {"Clear All Filters"}, selected_id, FALSE,
                     {"get_all_experiments"}, "none", "none", queries)
        ELSE IF read.error # "none" \/ read.rows = None
        THEN PageEnd(d, [ss EXCEPT !.selected_experiment_id = selected_id],
                     {"Clear All Filters"}, selected_id, FALSE,
                     {"get_all_experiments", "get_experiment_by_id"},
                     read.raised, read.error, queries + StillOpen(read))
        ELSE Details(d, [ss EXCEPT !.selected_experiment_id = selected_id],
                     selected_id, read.rows[1], pressed, new_status, fault,
                     queries + StillOpen(read))

\* One run of the page with the sidebar as it opens.  `kept` is the value the
\* selectbox had in the run before, `pressed` the button whose press started
\* this run ("none" for a rerun, a first visit or a new choice in the
\* selectbox), `choice` the record chosen in the selectbox, `new_status` the
\* status chosen in the edit form, `fault` the point at which the storage
\* layer fails in update_experiment or delete_experiment.
View_Experiments_run(d, ss0, kept, pressed, choice, new_status, fault) ==
    LET load == RunQuery(d, SelectAll(d), "none")
        out == filter_experiments(DataFrame(load.rows), {}, {}, "",
                                  <<NoInt, NoInt>>)
    IN  IF load.error # "none"
        THEN PageEnd(d, InitializedState(ss0), {}, kept, FALSE,
                     {"get_all_experiments"}, load.raised, load.error,
                     StillOpen(load))
        ELSE IF pressed = "Clear All Filters"
        THEN PageEnd(d, EmptyMap, {"Clear All Filters"}, kept, TRUE,
                     {"get_all_experiments"}, "none", "none", StillOpen(load))
        ELSE IF load.rows = <<>> \/ out.error # "none"
                \/ out.filtered_df.rows = <<>>
        THEN PageEnd(d, InitializedState(ss0), {"Clear All Filters"}, kept,
                     FALSE, {"get_all_experiments"}, out.error, out.error,
                     StillOpen(load))
        ELSE IF \E r \in d.experiments :
                    r.inoculation_date # NULL /\ strptime(r.inoculation_date) = NoInt
        THEN PageEnd(d, InitializedState(ss0), {"Clear All Filters"}, kept,
                     FALSE, {"get_all_experiments"}, "ValueError",
                     "ValueError", StillOpen(load))
        ELSE Selection(d, InitializedState(ss0),
                       Selectbox([i \in 1..Len(out.filtered_df.rows) |->
                                     out.filtered_df.rows[i].id],
                                 kept, pressed, choice),
                       pressed, new_status, fault, StillOpen(load))

\* A run of the page in the browser session.  The page of the run before is
\* still on the screen: a button can be pressed if that run put it there, and
\* a run that ended in st.rerun() is followed by a run without any input.
View_Experiments_manage(pressed, choice, new_status, fault) ==
    LET visited == last.op = "View_Experiments.main"
        rerun == visited /\ last.result.rerun
        kept == IF visited THEN last.result.selected_id ELSE NoInt
    IN  /\ last.op \in {"none", "View_Experiments.main"}
        /\ pressed = "none" \/ (visited /\ ~rerun /\ pressed \in last.result.buttons)
        /\ choice # NoInt => pressed = "none" /\ ~rerun
        /\ fault # "none" => pressed \in {"Save Changes", "Yes, Delete"}
        /\ \E page \in {View_Experiments_run(db, session_state, kept, pressed,
                                             choice, new_status, fault)} :
              /\ db' = page.db
              /\ session_state' = page.session_state
              /\ last' = Call("View_Experiments.main", page.selected_id,
                              [session_state |-> session_state,
                               pressed |-> pressed, choice |-> choice,
                               new_status |-> new_status],
                              fault, page.raised, page.error,
                              [buttons |-> page.buttons,
                               selected_id |-> page.selected_id,
                               rerun |-> page.rerun, called |-> page.called])
              /\ Remember
              /\ connections' = connections + page.open
              /\ UNCHANGED clock

Buttons ==
    {"none", "Clear All Filters", "Edit Experiment", "Delete Experiment",
     "Save Changes", "Cancel edit", "Yes, Delete", "Cancel"}

\* the records on file when the page is opened
ViewFiles ==
    {[table |-> TRUE,
      experiments |-> {InsertedRow(NewFields("colonizing"), i, i) : i \in 1..n},
      seq |-> n] : n \in 0..MaxStored}

InitView ==
    /\ db \in ViewFiles
    /\ clock = 1
    /\ last = Idle
    /\ history = [on |-> FALSE, returned |-> {}, deleted |-> {}]
    /\ prev = [db |-> db, history |-> history]
    /\ connections = 0
    /\ session_state = EmptyMap

NextView ==
    \E pressed \in Buttons, choice \in {NoInt} \cup (1..MaxStored),
       fault \in {"none", "commit"} :
        View_Experiments_manage(pressed, choice, "done", fault)

SpecView == InitView /\ [][NextView]_vars

\* ================================================================ claims
Stored(d, id) == \E r \in d.experiments : r.id = id

RowOf(d, id) == CHOOSE r \in d.experiments : r.id = id

TheRequiredFields ==
    {"experiment_name", "substrate_type", "inoculation_date", "status"}

Succeeded(op) == last.op = op /\ last.error = "none"

\* C1: a create call that has the four required fields returns an id that no
\* earlier create call returned, and reading that id back gives a record
\* that has the supplied value for every supplied field.
C1_CreateReturnsNovelIdAndReadsBack ==
    Succeeded("add_experiment") =>
        /\ last.result \notin prev.history.returned
        /\ SelectById(db, last.result) # None
        /\ \A k \in DOMAIN last.kwargs :
              SelectById(db, last.result)[1][k] = last.kwargs[k]

\* C2: a create call that lacks one of the four required fields fails with
\* the validation error and leaves the stored records as they were.
C2_MissingRequiredFieldRejected ==
    (last.op = "add_experiment"
        /\ ~(TheRequiredFields \subseteq DOMAIN last.kwargs)) =>
        /\ last.error = "ValueError"
        /\ db = prev.db

C2_Witness ==
    /\ last.op = "add_experiment"
    /\ "status" \notin DOMAIN last.kwargs
    /\ last.error = "ValueError"
    /\ db.experiments # {}

\* C3: whatever the call and its field mapping, every record that was stored
\* before the call and was not deleted by it is still stored under the same
\* id with the same created_at, and no two stored records share an id.
C3_IdAndCreatedAtImmutable ==
    /\ \A r \in prev.db.experiments :
          \/ last.op = "delete_experiment" /\ last.id = r.id
          \/ \E q \in db.experiments :
                q.id = r.id /\ q.created_at = r.created_at
    /\ \A r, q \in db.experiments : r.id = q.id => r = q

UpdateApplied ==
    LET old == RowOf(prev.db, last.id)
        keys == DOMAIN last.kwargs
        newid == IF "id" \in keys THEN last.kwargs["id"] ELSE last.id
    IN  /\ Stored(db, newid)
        /\ \A c \in Columns :
              RowOf(db, newid)[c] = IF c \in keys THEN last.kwargs[c] ELSE old[c]
        /\ db.experiments \ {RowOf(db, newid)} = prev.db.experiments \ {old}
        /\ Cardinality(db.experiments) = Cardinality(prev.db.experiments)

BreaksNoConstraint ==
    LET keys == DOMAIN last.kwargs
    IN  /\ keys \subseteq Columns
        /\ \A c \in keys \cap TheRequiredFields : last.kwargs[c] # NULL
        /\ "id" \in keys =>
              /\ last.kwargs["id"] # NoInt
              /\ \A r \in prev.db.experiments :
                    r.id = last.kwargs["id"] => r.id = last.id

C6_DeletedStaysAbsent ==
    /\ \A id \in history.deleted : SelectById(db, id) = None
    /\ (Succeeded("delete_experiment") /\ last.result) =>
          db.experiments = {r \in prev.db.experiments : r.id # last.id}

\* C7: delete returns True exactly when a record with the id was stored; for
\* any other id it returns False, raises nothing and changes nothing.
C7_DeleteReportsExistence ==
    last.op = "delete_experiment" =>
        /\ last.error = "none"
        /\ last.result = Stored(prev.db, last.id)
        /\ ~Stored(prev.db, last.id) => db = prev.db

C7_Witness ==
    /\ last.op = "delete_experiment"
    /\ last.result = FALSE
    /\ last.id <= db.seq
    /\ db.experiments # {}

\* C8: when an operation raises while it holds its connection, the stored
\* state is what it was before the operation, and the caller gets the error
\* that was raised.
C8_ErrorRollsBackAndPropagates ==
    (last.raised # "none" \/ last.error # "none") =>
        /\ db = prev.db
        /\ last.error = last.raised

C8_Witness ==
    /\ last.op = "add_experiment"
    /\ last.fault = "commit"
    /\ last.error = "StorageError"
    /\ db.experiments # {}

\* C9: read_all returns every stored record exactly once, with created_at
\* never increasing from one record to the next.
C9_ReadAllNewestFirst ==
    Succeeded("get_all_experiments") =>
        LET s == last.result
        IN  /\ {s[i] : i \in 1..Len(s)} = db.experiments
            /\ Len(s) = Cardinality(db.experiments)
            /\ \A i, j \in 1..Len(s) :
                  i < j => s[i].created_at >= s[j].created_at

C9_Witness ==
    /\ Succeeded("get_all_experiments")
    /\ Len(last.result) = 2
    /\ last.result[1].created_at > last.result[2].created_at
    /\ last.result[1].id > last.result[2].id

\* C10: filter_by_status(s) returns the records with status s, each once, in
\* the order in which read_all lists them.
C10_FilterByStatusKeepsOrder ==
    Succeeded("get_experiments_by_status") =>
        last.result = SelectSeq(SelectAll(db),
                                LAMBDA r : r.status = last.kwargs["status"])

C10_Witness ==
    /\ Succeeded("get_experiments_by_status")
    /\ Len(last.result) = 1
    /\ Cardinality(db.experiments) = 2
    /\ SelectAll(db)[2] = last.result[1]

\* C11: the counts get_stats returns are the number of stored records, the
\* number with status 'contaminated' and the number whose status is neither
\* 'done' nor 'contaminated'; with the number of records with status 'done'
\* the three parts add up to the total.
C11_StatsCountsAddUp ==
    Succeeded("get_stats") =>
        LET s == last.result
            done_count ==
                Cardinality({r \in db.experiments : r.status = "done"})
        IN  /\ s.total_count = Cardinality(db.experiments)
            /\ s.contaminated_count =
                  Cardinality({r \in db.experiments : r.status = "contaminated"})
            /\ s.active_count =
                  Cardinality({r \in db.experiments :
                                  r.status \notin {"done", "contaminated"}})
            /\ s.active_count + done_count + s.contaminated_count = s.total_count

C11_Witness ==
    /\ Succeeded("get_stats")
    /\ last.result.total_count = 3
    /\ last.result.contaminated_count = 1
    /\ last.result.active_count = 1
    /\ \E r \in db.experiments : r.status = "Done"

\* C12: success_rate is 0.0 for an empty store; otherwise it is the tenth of
\* a percent nearest to (total - contaminated) / total * 100; it lies between
\* 0.0 and 100.0.
C12_SuccessRateRounded ==
    Succeeded("get_stats") =>
        LET s == last.result
            exact == 1000 * (s.total_count - s.contaminated_count)
            off == s.success_rate * s.total_count - exact
        IN  /\ s.total_count = 0 => s.success_rate = 0
            /\ s.total_count > 0 =>
                  /\ 2 * off <= s.total_count
                  /\ 2 * off >= 0 - s.total_count
            /\ s.success_rate \in 0..1000

C12_Witness ==
    /\ Succeeded("get_stats")
    /\ last.result.total_count = 3
    /\ last.result.contaminated_count = 1
    /\ last.result.success_rate = 667

\* C13: init_database leaves the stored records and the id counter as they
\* were, the table exists afterwards, and a second init_database right after
\* the first changes nothing.
C13_InitializeKeepsRecords ==
    Succeeded("init_database") =>
        /\ db.table
        /\ db.experiments = prev.db.experiments
        /\ db.seq = prev.db.seq
        /\ ExecCreateTable(db).db = db

C13_Witness ==
    /\ Succeeded("init_database")
    /\ Cardinality(db.experiments) = 2
    /\ db.seq = 3

\* ---- the two page filters
Filtered(op) == last.op = op /\ last.error = "none"

NoDates == last.kwargs.date_range[1] = NoInt \/ last.kwargs.date_range[2] = NoInt

NoTerm == last.kwargs.search_term \in {NULL, ""}

InSet(value, set) == set = {} \/ value \in set

\* C14: an empty status set and an empty substrate set filter nothing; a set
\* that is not empty keeps exactly the records whose status (substrate_type)
\* is in it - in filter_experiments and, for the substrate set, in
\* filter_data.
C14_EmptySetKeepsAll ==
    /\ Filtered("filter_experiments") =>
          LET a == last.kwargs
              out == last.result.filtered_df.rows
              Kept(r) == /\ InSet(r.status, a.status_filter)
                         /\ InSet(r.substrate_type, a.substrate_filter)
          IN  /\ \A i \in 1..Len(out) : Kept(out[i])
              /\ (NoTerm /\ NoDates) => out = SelectSeq(a.df.rows, Kept)
    /\ Filtered("filter_data") =>
          LET a == last.kwargs
              out == last.result.filtered_df.rows
              Kept(r) == InSet(r.substrate_type, a.substrate_filter)
          IN  /\ \A i \in 1..Len(out) : Kept(out[i])
              /\ (~a.exclude_contaminated /\ NoDates) =>
                    out = SelectSeq(a.df.rows, Kept)

C14_Witness ==
    /\ Filtered("filter_experiments")
    /\ last.kwargs.status_filter = {}
    /\ last.kwargs.substrate_filter = {"straw"}
    /\ NoTerm /\ NoDates
    /\ Len(last.kwargs.df.rows) = 3
    /\ Len(last.result.filtered_df.rows) = 2

\* the term occurs in the name when both are put in lower case
ContainsLiteral(name, term) ==
    LET n == LowerChars(name)
        t == LowerChars(term)
    IN  \E i \in 0..(Len(n) - Len(t)) : SubSeq(n, i + 1, i + Len(t)) = t

\* C15: with a search term that is not empty the name filter raises nothing
\* and keeps exactly the records whose experiment_name contains the term as
\* it is written, in either case; with no term it keeps every record.
C15_NameFilterIsLiteralContainment ==
    (last.op = "filter_experiments"
        /\ last.kwargs.status_filter = {} /\ last.kwargs.substrate_filter = {}
        /\ NoDates) =>
        /\ last.error = "none"
        /\ last.result.filtered_df.rows =
              IF NoTerm THEN last.kwargs.df.rows
              ELSE SelectSeq(last.kwargs.df.rows,
                             LAMBDA r : ContainsLiteral(r.experiment_name,
                                                        last.kwargs.search_term))

\* the day number of the dates of the catalogue (date.toordinal())
DayNumber(text) ==
    CASE text = "2023-12-31" -> 738885
      [] text = "2024-01-10" -> 738895
      [] text = "2024-01-31" -> 738916
      [] text = "2024-02-01" -> 738917

\* C16: with both bounds the date filter keeps exactly the records whose
\* inoculation_date is on or after the start date and on or before the end
\* date; with a bound missing it removes no record - in filter_experiments
\* and in filter_data.
C16_DateRangeInclusive ==
    LET a == last.kwargs
        out == last.result.filtered_df.rows
        Within(r) == /\ a.date_range[1] <= DayNumber(r.inoculation_date)
                     /\ DayNumber(r.inoculation_date) <= a.date_range[2]
        expected == IF NoDates THEN a.df.rows ELSE SelectSeq(a.df.rows, Within)
    IN  /\ (Filtered("filter_experiments") /\ NoTerm
              /\ a.status_filter = {} /\ a.substrate_filter = {}) =>
              out = expected
        /\ (Filtered("filter_data") /\ ~a.exclude_contaminated
              /\ a.substrate_filter = {}) =>
              out = expected

C16_Witness ==
    /\ Filtered("filter_experiments")
    /\ NoTerm /\ ~NoDates
    /\ last.kwargs.status_filter = {} /\ last.kwargs.substrate_filter = {}
    /\ Len(last.kwargs.df.rows) = 3
    /\ Len(last.result.filtered_df.rows) = 2
    /\ last.result.filtered_df.rows[1].inoculation_date = "2024-01-31"
    /\ last.result.filtered_df.rows[2].inoculation_date = "2024-01-10"

\* C17: filtering the result of filter_experiments again with the same
\* arguments gives the same result; the status set and then the substrate
\* set, the substrate set and then the status set, and the two sets in one
\* call give the same records.
C17_FilterIdempotentAndCommutes ==
    Filtered("filter_experiments") =>
        LET a == last.kwargs
            none == <<NoInt, NoInt>>
            again == filter_experiments(last.result.filtered_df, a.status_filter,
                                        a.substrate_filter, a.search_term,
                                        a.date_range)
            ByStatus(df) ==
                filter_experiments(df, a.status_filter, {}, "", none).filtered_df
            BySubstrate(df) ==
                filter_experiments(df, {}, a.substrate_filter, "", none).filtered_df
            together == filter_experiments(a.df, a.status_filter,
                                           a.substrate_filter, "", none).filtered_df
        IN  /\ again.error = "none"
            /\ again.filtered_df = last.result.filtered_df
            /\ BySubstrate(ByStatus(a.df)) = together
            /\ ByStatus(BySubstrate(a.df)) = together

C17_Witness ==
    /\ Filtered("filter_experiments")
    /\ last.kwargs.status_filter = {"colonizing", "done"}
    /\ last.kwargs.substrate_filter = {"straw"}
    /\ last.kwargs.search_term = "r.a"
    /\ ~NoDates
    /\ Len(last.kwargs.df.rows) = 3
    /\ Len(last.result.filtered_df.rows) = 1

\* C18: every record of the result of filter_experiments is a record of the
\* input, none is there twice, two records of the result stand in the order
\* they have in the input, and the frame passed in is after the call what it
\* was before.
C18_FilterKeepsOrderAndInput ==
    last.op = "filter_experiments" =>
        /\ last.result.df = last.kwargs.df
        /\ last.error = "none" =>
              LET in == last.kwargs.df.rows
                  out == last.result.filtered_df.rows
              IN  /\ \A i, j \in 1..Len(out) : i < j => out[i] # out[j]
                  /\ \A i \in 1..Len(out) : \E k \in 1..Len(in) : in[k] = out[i]
                  /\ \A i, j \in 1..Len(out) :
                        i < j => \E k, l \in 1..Len(in) :
                                    k < l /\ in[k] = out[i] /\ in[l] = out[j]

C18_Witness ==
    /\ Filtered("filter_experiments")
    /\ ~NoDates /\ NoTerm
    /\ last.kwargs.status_filter = {} /\ last.kwargs.substrate_filter = {}
    /\ Len(last.kwargs.df.rows) = 3
    /\ Len(last.result.filtered_df.rows) = 2
    /\ last.result.filtered_df.rows[1] = last.kwargs.df.rows[1]
    /\ last.result.filtered_df.rows[2] = last.kwargs.df.rows[3]

\* ---- the days-elapsed calculators
DaysOps ==
    {"utils.calculate_days_elapsed", "View_Experiments.calculate_days_elapsed",
     "app.calculate_days_since_inoculation"}

\* the date texts among the arguments that are dates, with their day numbers
DayOfText(text) ==
    CASE text = "2024-01-10" -> 738895
      [] text = "2024-02-29" -> 738945
      [] text = "2024-03-01" -> 738946
      [] text = "2024-03-15" -> 738960
      [] OTHER -> 0

\* the day a value stands for, 0 when it is absent or stands for none
DayOf(v) ==
    CASE v.type = "str" -> DayOfText(v.text)
      [] v.type \in {"date", "datetime"} -> v.day
      [] OTHER -> 0

\* C19: a days-elapsed calculator never raises, and for a date value that is
\* absent, of a wrong type or not a date in YYYY-MM-DD form it returns None
\* (not 0).
C19_DaysElapsedUnknownNotError ==
    last.op \in DaysOps =>
        /\ last.error = "none"
        /\ DayOf(last.kwargs.start_date) = 0 => last.result = None

\* C20: for a date d and a reference date, days_elapsed is the number of
\* days from d to the reference, negative when d is after it; a later date
\* under the same reference gives a smaller number.
C20_DaysElapsedDecreasing ==
    (last.op = "utils.calculate_days_elapsed"
        /\ DayOf(last.kwargs.start_date) # 0
        /\ (last.kwargs.end_date.type \in {"NoneType", "date", "datetime"}
               \/ DayOf(last.kwargs.end_date) # 0)) =>
        LET reference == IF last.kwargs.end_date.type = "NoneType" THEN clock
                         ELSE DayOf(last.kwargs.end_date)
        IN  /\ last.error = "none"
            /\ last.result = <<reference - DayOf(last.kwargs.start_date)>>
            /\ \A d \in StartDates :
                  DayOf(d) > DayOf(last.kwargs.start_date) =>
                      LET later == calculate_days_elapsed(
                                       d, last.kwargs.end_date, clock).value
                      IN  later # None /\ later[1] < last.result[1]

C20_Witness ==
    /\ last.op = "utils.calculate_days_elapsed"
    /\ last.kwargs.start_date = Str("2024-02-29")
    /\ last.kwargs.end_date.type = "date"
    /\ last.result = <<0 - 29>>

\* ---------------------------------------------------------------- charts
\* a run of the Analytics page that drew its charts, and the records it drew
Analysed ==
    last.op = "filter_data" /\ last.error = "none" /\ last.result.charts # None

Input == {last.result.filtered_df.rows[i] :
             i \in 1..Len(last.result.filtered_df.rows)}

AnalyticsDay(text) ==
    CASE text = "2024-01-01" -> 738886
      [] text = "2024-01-03" -> 738888
      [] text = "2024-01-10" -> 738895
      [] text = "2024-01-15" -> 738900

DaysBetween(r) ==
    AnalyticsDay(r.colonization_date) - AnalyticsDay(r.inoculation_date)

RECURSIVE TotalDays(_)
TotalDays(records) ==
    IF records = {} THEN 0
    ELSE LET r == CHOOSE x \in records : TRUE
         IN  DaysBetween(r) + TotalDays(records \ {r})

RECURSIVE SumOver(_, _)
SumOver(f, keys) ==
    IF keys = {} THEN 0
    ELSE LET k == CHOOSE x \in keys : TRUE
         IN  f[k] + SumOver(f, keys \ {k})

Colonized(g) ==
    {r \in Input : r.substrate_type = g /\ r.colonization_date # NULL}

\* C21: days to colonization is colonization date minus inoculation date in
\* whole days, and unknown when the colonization date is missing; the
\* average of a substrate is taken over its records with a known
\* colonization only, has no entry when there is none, and is the mean of
\* their days to the nearest tenth.
C21_DaysToColonizationAndAverage ==
    Analysed =>
        /\ \A r \in Input :
              calculate_days_to_colonization(r) =
                  IF r.colonization_date = NULL THEN None
                  ELSE <<DaysBetween(r)>>
        /\ LET avg == last.result.charts.avg_colonization
           IN  /\ DOMAIN avg = {r.substrate_type :
                                   r \in {x \in Input : x.colonization_date # NULL}}
               /\ \A g \in DOMAIN avg :
                     LET n == Cardinality(Colonized(g))
                         d == 10 * TotalDays(Colonized(g)) - avg[g].Avg_Days * n
                     IN  /\ avg[g].Count = n
                         /\ 2 * d <= n /\ 2 * d >= 0 - n

\* C21, as stated: the average of a substrate is exactly the mean.
C21_AverageIsExactMean ==
    Analysed =>
        \A g \in DOMAIN last.result.charts.avg_colonization :
            last.result.charts.avg_colonization[g].Avg_Days
                * Cardinality(Colonized(g)) = 10 * TotalDays(Colonized(g))

\* three cardboard records, the colonization of one unknown, of the others
\* after 14 and 7 days: the average is 10.5 over two records
C21_Witness ==
    /\ Analysed
    /\ Cardinality({r \in Input : r.substrate_type = "cardboard"}) = 3
    /\ {DaysBetween(r) : r \in Colonized("cardboard")} = {14, 7}
    /\ last.result.charts.avg_colonization["cardboard"] =
           [Avg_Days |-> 105, Count |-> 2]

\* C22: there is one group per substrate type of the input; its total is the
\* number of records of that substrate, its successful count the number of
\* those that are not contaminated, its rate the percentage of the two to
\* the nearest tenth; the totals add up to the number of input records.
C22_GroupBySubstrate ==
    Analysed =>
        LET sd == last.result.charts.success_data
            Of(g) == {r \in Input : r.substrate_type = g}
        IN  /\ DOMAIN sd = {r.substrate_type : r \in Input}
            /\ \A g \in DOMAIN sd :
                  LET ok == Cardinality({r \in Of(g) : r.status # "contaminated"})
                      d == 1000 * ok - sd[g].Success_Rate * Cardinality(Of(g))
                  IN  /\ sd[g].Total = Cardinality(Of(g))
                      /\ sd[g].Successful = ok
                      /\ 2 * d <= sd[g].Total /\ 2 * d >= 0 - sd[g].Total
            /\ SumOver([g \in DOMAIN sd |-> sd[g].Total], DOMAIN sd)
                   = Cardinality(Input)

\* one contaminated and one done cardboard record: 50.0
C22_Witness ==
    /\ Analysed
    /\ {r.status : r \in {x \in Input : x.substrate_type = "cardboard"}}
           = {"contaminated", "done"}
    /\ last.result.charts.success_data["cardboard"].Total = 2
    /\ last.result.charts.success_data["cardboard"].Success_Rate = 500

\* C23: the status distribution has an entry for exactly the statuses that
\* occur in the input, each with the number of input records of that status,
\* which is at least 1; the counts add up to the number of input records.
C23_StatusDistribution ==
    Analysed =>
        LET counts == last.result.charts.status_counts
        IN  /\ DOMAIN counts = {r.status : r \in Input}
            /\ \A s \in DOMAIN counts :
                  /\ counts[s] = Cardinality({r \in Input : r.status = s})
                  /\ counts[s] >= 1
            /\ SumOver(counts, DOMAIN counts) = Cardinality(Input)

\* two done records and a colonizing one: two entries, none for the rest
C23_Witness ==
    /\ Analysed
    /\ Cardinality(Input) = 3
    /\ last.result.charts.status_counts =
           [s \in {"done", "colonizing"} |-> IF s = "done" THEN 2 ELSE 1]

\* C24: the timeline has one entry per inoculation date of the input, in
\* strictly ascending order of date; the cumulative count of an entry is the
\* number of input records inoculated on or before its date, so the counts
\* increase strictly and the last one is the number of input records.
C24_CumulativeTimeline ==
    Analysed =>
        LET tl == last.result.charts.timeline_counts
        IN  /\ {tl[k].Date : k \in 1..Len(tl)} =
                   {AnalyticsDay(r.inoculation_date) : r \in Input}
            /\ \A k \in 1..Len(tl) :
                  tl[k].Cumulative =
                      Cardinality({r \in Input :
                          AnalyticsDay(r.inoculation_date) <= tl[k].Date})
            /\ \A k \in 1..(Len(tl) - 1) :
                  /\ tl[k].Date < tl[k + 1].Date
                  /\ tl[k].Cumulative < tl[k + 1].Cumulative
            /\ tl[Len(tl)].Cumulative = Cardinality(Input)

\* records of 2024-01-01, 2024-01-01 and 2024-01-03
C24_Witness ==
    /\ Analysed
    /\ Cardinality({r \in Input : r.inoculation_date = "2024-01-01"}) = 2
    /\ Cardinality({r \in Input : r.inoculation_date = "2024-01-03"}) = 1
    /\ [k \in 1..2 |-> <<last.result.charts.timeline_counts[k].Date,
                         last.result.charts.timeline_counts[k].Cumulative>>]
           = <<(<<738886, 2>>), (<<738888, 3>>)>>
    /\ Len(last.result.charts.timeline_counts) = 2

\* ----------------------------------------------------------------- rates
\* C25: the biological efficiency is unknown exactly when the substrate
\* weight is not positive or the harvest is negative; otherwise it is the
\* tenth of a percent nearest to harvest / (substrate * 1000) * 100, and it
\* is not negative.
C25_BiologicalEfficiency ==
    last.op = "calculate_biological_efficiency" =>
        LET h == last.kwargs.harvest_weight_grams
            s == last.kwargs.substrate_weight_kg
        IN  /\ last.error = "none"
            /\ (last.result = None) <=> (s <= 0 \/ h < 0)
            /\ last.result # None =>
                  LET off == last.result[1] * s - 1000 * h
                  IN  /\ 2 * off <= s /\ 2 * off >= 0 - s
                      /\ last.result[1] >= 0

\* biological_efficiency(1500, 1.0) = 150.0
C25_Witness ==
    /\ last.op = "calculate_biological_efficiency"
    /\ last.kwargs.harvest_weight_grams = 1500
    /\ last.kwargs.substrate_weight_kg = 1000
    /\ last.result = <<1500>>

\* the tenth that round-half-away-from-zero gives for num / den * 100
HalfAwayFromZero(num, den) ==
    IF num >= 0 THEN (2000 * num + den) \div (2 * den)
    ELSE 0 - ((2000 * (0 - num) + den) \div (2 * den))

\* C26: a reported percentage is the exact value rounded to one decimal,
\* half away from zero (6.25 is reported as 6.3).
C26_RoundsHalfAwayFromZero ==
    (last.op = "calculate_success_rate" /\ last.kwargs.total > 0) =>
        last.result = HalfAwayFromZero(last.kwargs.total - last.kwargs.contaminated,
                                       last.kwargs.total)

\* C30: the success rate of get_stats is calculate_success_rate of the total
\* and the contaminated count of the same statistics, 0.0 for an empty store.
C30_SuccessRatesAgree ==
    Succeeded("get_stats") =>
        /\ last.result.success_rate =
               calculate_success_rate(last.result.total_count,
                                      last.result.contaminated_count)
        /\ last.result.total_count = 0 => last.result.success_rate = 0

\* two of three experiments contaminated: both give 33.3
C30_Witness ==
    /\ Succeeded("get_stats")
    /\ last.result.total_count = 3
    /\ last.result.contaminated_count = 2
    /\ last.result.success_rate = 333
    /\ calculate_success_rate(3, 2) = 333

Blank(text) == \A i \in 1..Len(text) : CharAt(text, i) = " "

FormDay(text) ==
    CASE text = "2024-01-31" -> 738916
      [] text = "2024-02-01" -> 738917
      [] text = "2024-02-02" -> 738918
      [] text = "2024-12-30" -> 739250
      [] text = "2024-12-31" -> 739251
      [] text = "2025-01-01" -> 739252

\* C28: a form submitted with a blank experiment name, an empty substrate
\* type, no inoculation date or an inoculation date after today creates
\* nothing and leaves the store as it was; no record on file has a blank
\* name, an empty substrate type or an inoculation date after today.
C28_FormCreatesOnlyWhenValid ==
    last.op = "Add_Experiment.main" =>
        LET form == last.kwargs
            invalid == \/ Blank(form.experiment_name)
                       \/ form.substrate_type = ""
                       \/ form.inoculation_date = NoInt
                       \/ form.inoculation_date > clock
        IN  /\ invalid <=> last.result.errors # <<>>
            /\ invalid => /\ db = prev.db
                          /\ last.result.experiment_id = NoInt
            /\ \A r \in db.experiments :
                  /\ ~Blank(r.experiment_name)
                  /\ r.substrate_type # ""
                  /\ FormDay(r.inoculation_date) <= clock

\* a form with a name of spaces is turned down; the record created before
\* is still the only one
C28_Witness ==
    /\ last.op = "Add_Experiment.main"
    /\ last.kwargs.experiment_name = "   "
    /\ last.result.errors = <<"Experiment name is required">>
    /\ db = prev.db
    /\ \E r \in db.experiments :
          r.experiment_name = "Oyster" /\ FormDay(r.inoculation_date) = clock

\* ------------------------------------------------------------ delete flow
Managed == last.op = "View_Experiments.main"

\* the flag is set in the session state
Set(ss, key) == key \in DOMAIN ss /\ ss[key] = TRUE

DeleteCalled == "delete_experiment" \in last.result.called

RecordGone ==
    \E r \in prev.db.experiments : \A q \in db.experiments : q.id # r.id

\* C29: in a run of the View Experiments page, delete_experiment is called,
\* and a record disappears, only when delete_confirm was set before the run
\* and "Yes, Delete" is the button pressed; delete_confirm becomes set only
\* by a press of "Delete Experiment" in a run that began with edit_mode not
\* set, and that button is on a page only while edit_mode is not set; after
\* a press of "Cancel" or "Clear All Filters" delete_confirm is not set and
\* nothing was deleted; after a delete that succeeded delete_confirm is not
\* set and no experiment is selected.
C29_DeleteOnlyAfterConfirmation ==
    Managed =>
        LET before == last.kwargs.session_state
            pressed == last.kwargs.pressed
        IN  /\ (DeleteCalled \/ RecordGone) =>
                  Set(before, "delete_confirm") /\ pressed = "Yes, Delete"
            /\ (Set(session_state, "delete_confirm")
                   /\ ~Set(before, "delete_confirm")) =>
                  pressed = "Delete Experiment" /\ ~Set(before, "edit_mode")
            /\ ("Delete Experiment" \in last.result.buttons
                   /\ ~last.result.rerun) =>
                  ~Set(session_state, "edit_mode")
            /\ pressed \in {"Cancel", "Clear All Filters"} =>
                  /\ ~Set(session_state, "delete_confirm")
                  /\ ~DeleteCalled /\ db = prev.db
            /\ (DeleteCalled /\ last.raised = "none") =>
                  /\ ~Set(session_state, "delete_confirm")
                  /\ session_state.selected_experiment_id = NoInt

\* "Yes, Delete" pressed on the confirmation: the selected record is gone
\* and the session state is reset
C29_Witness ==
    /\ Managed
    /\ last.kwargs.pressed = "Yes, Delete"
    /\ Set(last.kwargs.session_state, "delete_confirm")
    /\ DeleteCalled /\ RecordGone
    /\ \A q \in db.experiments : q.id # last.id
    /\ session_state.delete_confirm = FALSE
    /\ session_state.selected_experiment_id = NoInt

====
